---- MODULE Spec2Model ----
(***************************************************************************)
(* SBK_MAX72xx: driver for daisy-chained MAX7219/MAX7221 LED drivers.      *)
(* Two variants of one class: SBK_MAX72xxHard (hardware SPI) and           *)
(* SBK_MAX72xxSoft (bit-banged shiftOut).  The model holds one driver      *)
(* object, the select line, the chain's shift register and the chips'      *)
(* registers, and a log of what the last public call put on the bus.       *)
(***************************************************************************)
EXTENDS Integers, Sequences, FiniteSets, TLC

(***************************************************************************)
(* Opcodes (SBK_MAX72xxHard.cpp:24-37, SBK_MAX72xxSoft.cpp:24-37).         *)
(***************************************************************************)
OP_NOOP == 0
OP_DIGIT0 == 1
OP_DECODEMODE == 9
OP_INTENSITY == 10
OP_SCANLIMIT == 11
OP_SHUTDOWN == 12
OP_DISPLAYTEST == 15

\* static constexpr uint8_t _defaultRowBufferSize / _defaultColBufferSize
defaultRowBufferSize == 8
defaultColBufferSize == 8

\* Arduino pin levels written to _csPin
LOW == 0
HIGH == 1

(***************************************************************************)
(* Bounds and input sets of the model.                                     *)
(***************************************************************************)
\* number of public calls made on the object after its construction, and on
\* an object whose chain has the greatest length the constructor allows
MaxOps == 3
MaxOpsLong == 2

Variants == {"Hard", "Soft"}

\* devsNum values handed to the constructor (0 and 9 are clamped)
DevsNumArgs == {0, 1, 2, 3, 9}

\* a register of a chip that was never written: no byte
NoData == 0 - 1

(***************************************************************************)
(* 8-bit arithmetic, bit by bit.                                           *)
(***************************************************************************)
U8(x) == x % 256

Bit(v, k) == (v \div (2 ^ k)) % 2

AND8(a, b) ==
    LET f[k \in 0..8] ==
            IF k = 8 THEN 0
            ELSE (IF Bit(a, k) = 1 /\ Bit(b, k) = 1 THEN 2 ^ k ELSE 0) + f[k + 1]
    IN f[0]

OR8(a, b) ==
    LET f[k \in 0..8] ==
            IF k = 8 THEN 0
            ELSE (IF Bit(a, k) = 1 \/ Bit(b, k) = 1 THEN 2 ^ k ELSE 0) + f[k + 1]
    IN f[0]

\* the low 8 bits of ~a
NOT8(a) ==
    LET f[k \in 0..8] ==
            IF k = 8 THEN 0
            ELSE (IF Bit(a, k) = 0 THEN 2 ^ k ELSE 0) + f[k + 1]
    IN f[0]

\* static_cast<int8_t>(x) of a uint8_t
ToInt8(x) == IF x > 127 THEN x - 256 ELSE x

\* (faulty variant of constrain: no lower limit)
constrain_NoLower(x, lo, hi) == IF x > hi THEN hi ELSE x

\* Arduino constrain(x, lo, hi)
constrain(x, lo, hi) == IF x < lo THEN lo ELSE IF x > hi THEN hi ELSE x

(***************************************************************************)
(* The bus.  An event of the log is a select-line write, a byte, or the    *)
(* begin/end of an SPI transaction (hardware variant).                     *)
(***************************************************************************)
Ev(k, v) == [k |-> k, v |-> v]

\* The chips at the rising edge of the select line: each latches the 16 bits
\* at its own position of the chain's shift register (shiftReg[1] is the byte
\* shifted in last, so device 0 holds shiftReg[2], shiftReg[1]); the low 4
\* bits of the first byte address the register and address 0 is no-op.
Latch(m) ==
    [d \in 0..(m.devsNum - 1) |->
        LET op == m.shiftReg[2 * d + 2] % 16
            data == m.shiftReg[2 * d + 1]
        IN IF op = OP_NOOP THEN m.hw[d] ELSE [m.hw[d] EXCEPT ![op] = data]]

\* digitalWrite(_csPin, level)
digitalWriteCS(m, level) ==
    [m EXCEPT !.cs = level,
              !.wire = Append(@, Ev("cs", level)),
              !.hw = IF m.cs = LOW /\ level = HIGH THEN Latch(m) ELSE @]

\* one byte clocked into the chain, most significant bit first
ClockIn(m, b) ==
    [m EXCEPT !.wire = Append(@, Ev("byte", b)),
              !.shiftReg = <<b>> \o SubSeq(@, 1, Len(@) - 1)]

\* SPI.transfer(b) (hardware variant)
SPItransfer(m, b) == ClockIn(m, b)

\* (faulty variant of shiftOut: the bits go out least significant first, LSBFIRST)
shiftOut_LsbFirst(m, b) ==
    LET bits == [i \in 1..8 |-> Bit(b, i - 1)]
        rx[i \in 0..8] == IF i = 0 THEN 0 ELSE 2 * rx[i - 1] + bits[i]
    IN ClockIn(m, rx[8])

\* shiftOut(_dataPin, _clkPin, MSBFIRST, b) (bit-banged variant): the eight
\* bits of b go out from bit 7 down to bit 0 and the chain reads them back in
\* that order.
shiftOut(m, b) ==
    LET bits == [i \in 1..8 |-> Bit(b, 8 - i)]
        rx[i \in 0..8] == IF i = 0 THEN 0 ELSE 2 * rx[i - 1] + bits[i]
    IN ClockIn(m, rx[8])

\* the byte primitive of the variant at hand
SendByte(m, b) == IF m.variant = "Hard" THEN SPItransfer(m, b) ELSE shiftOut(m, b)

\* SPI.beginTransaction / SPI.endTransaction (hardware variant only)
beginTransaction(m) ==
    [m EXCEPT !.inTransaction = TRUE, !.wire = Append(@, Ev("begin", 0))]

endTransaction(m) ==
    [m EXCEPT !.inTransaction = FALSE, !.wire = Append(@, Ev("end", 0))]

(***************************************************************************)
(* Private helpers of the class.                                           *)
(***************************************************************************)
maxRows(devIdx) == defaultRowBufferSize

maxColumns == defaultColBufferSize

\* (faulty variant of bitMaskRow: row 0 taken for the least significant bit)
bitMaskRow_LsbFirst(devIdx, rowIdx) == U8(2 ^ rowIdx)

\* _bitMaskRow: 1 << ((maxRows(devIdx) - 1) - rowIdx), as uint8_t
bitMaskRow(devIdx, rowIdx) == U8(2 ^ ((maxRows(devIdx) - 1) - rowIdx))

\* _colIndex: devIdx * _defaultColBufferSize + colIdx, as uint8_t
colIndex(devIdx, colIdx) == U8(devIdx * defaultColBufferSize + colIdx)

\* (faulty variant of spiTransferLoop: the data byte is not zeroed for the devices
\* that are not addressed)
RECURSIVE spiTransferLoop_StaleData(_, _, _, _, _)
spiTransferLoop_StaleData(m, i, targetDevice, opcode, data) ==
    IF i < 0 THEN m
    ELSE LET op == IF i = ToInt8(targetDevice) THEN opcode ELSE OP_NOOP
         IN spiTransferLoop_StaleData(SendByte(SendByte(m, op), data), i - 1,
                                      targetDevice, opcode, data)

\* the for loop of _spiTransfer, i from _devsNum - 1 down to 0
RECURSIVE spiTransferLoop(_, _, _, _, _)
spiTransferLoop(m, i, targetDevice, opcode, data) ==
    IF i < 0 THEN m
    ELSE LET op == IF i = ToInt8(targetDevice) THEN opcode ELSE OP_NOOP
             val == IF i = ToInt8(targetDevice) THEN data ELSE 0
         IN spiTransferLoop(SendByte(SendByte(m, op), val), i - 1,
                            targetDevice, opcode, data)

\* (faulty variant of spiTransfer: the target is not tested against _devsNum)
spiTransfer_NoRangeCheck(m, targetDevice, opcode, data) ==
    digitalWriteCS(
        spiTransferLoop(digitalWriteCS(m, LOW), m.devsNum - 1,
                        targetDevice, opcode, data),
        HIGH)

\* _spiTransfer
spiTransfer(m, targetDevice, opcode, data) ==
    IF targetDevice >= m.devsNum THEN m
    ELSE digitalWriteCS(
             spiTransferLoop(digitalWriteCS(m, LOW), m.devsNum - 1,
                             targetDevice, opcode, data),
             HIGH)

\* (faulty variant of writeColLoop: the pairs go out for device 0 first)
RECURSIVE writeColLoop_Ascending(_, _, _, _, _)
writeColLoop_Ascending(m, i, targetDevice, colIdx, data) ==
    IF i < 0 THEN m
    ELSE LET j == (m.devsNum - 1) - i
             opcode == IF j = ToInt8(targetDevice) THEN U8(OP_DIGIT0 + colIdx)
                       ELSE OP_NOOP
             val == IF j = ToInt8(targetDevice) THEN data ELSE 0
         IN writeColLoop_Ascending(SendByte(SendByte(m, opcode), val), i - 1,
                                   targetDevice, colIdx, data)

\* the for loop of _writeColToAllDevices
RECURSIVE writeColLoop(_, _, _, _, _)
writeColLoop(m, i, targetDevice, colIdx, data) ==
    IF i < 0 THEN m
    ELSE LET opcode == IF i = ToInt8(targetDevice) THEN U8(OP_DIGIT0 + colIdx)
                       ELSE OP_NOOP
             val == IF i = ToInt8(targetDevice) THEN data ELSE 0
         IN writeColLoop(SendByte(SendByte(m, opcode), val), i - 1,
                         targetDevice, colIdx, data)

\* _writeColToAllDevices
writeColToAllDevices(m, targetDevice, colIdx, data) ==
    IF targetDevice >= m.devsNum \/ colIdx >= maxColumns THEN m
    ELSE digitalWriteCS(
             writeColLoop(digitalWriteCS(m, LOW), m.devsNum - 1,
                          targetDevice, colIdx, data),
             HIGH)

(***************************************************************************)
(* Public operations, as functions of the machine record m:                *)
(*   variant, devsNum, buffer, update   the object's fields                *)
(*   cs, shiftReg, hw, inTransaction    the bus and the chips              *)
(*   wire                               the log of the call at hand        *)
(***************************************************************************)

\* (faulty variant of setShutdown: the device written to is flagged)
setShutdown_Flags(m, devIdx, status) ==
    LET s == spiTransfer(m, devIdx, OP_SHUTDOWN, IF status THEN 0 ELSE 1)
    IN IF devIdx >= m.devsNum THEN s ELSE [s EXCEPT !.update[devIdx] = TRUE]

\* setShutdown
setShutdown(m, devIdx, status) ==
    spiTransfer(m, devIdx, OP_SHUTDOWN, IF status THEN 0 ELSE 1)

\* setScanLimit
setScanLimit(m, devIdx, limit) ==
    spiTransfer(m, devIdx, OP_SCANLIMIT, AND8(limit, 7))

\* (faulty variant of setBrightness: the level is sent as given)
setBrightness_Unmasked(m, devIdx, brightness) ==
    spiTransfer(m, devIdx, OP_INTENSITY, U8(brightness))

\* setBrightness
setBrightness(m, devIdx, brightness) ==
    LET b == AND8(brightness, 15)
    IN spiTransfer(m, devIdx, OP_INTENSITY, AND8(b, 15))

\* testMode(devIdx, enable)
testMode(m, devIdx, enable) ==
    IF devIdx >= m.devsNum THEN m
    ELSE spiTransfer(m, devIdx, OP_DISPLAYTEST, IF enable THEN 1 ELSE 0)

\* testMode(enable): every device in turn
RECURSIVE testModeAllLoop(_, _, _)
testModeAllLoop(m, i, enable) ==
    IF i >= m.devsNum THEN m
    ELSE testModeAllLoop(testMode(m, i, enable), i + 1, enable)

testModeAll(m, enable) == testModeAllLoop(m, 0, enable)

\* (faulty variant of clearLoop: the buffer is zeroed and nothing is sent)
RECURSIVE clearLoop_BufferOnly(_, _, _)
clearLoop_BufferOnly(m, devIdx, colIdx) ==
    IF colIdx >= maxColumns THEN m
    ELSE clearLoop_BufferOnly(
             [m EXCEPT !.buffer[colIndex(devIdx, colIdx)] = 0],
             devIdx, colIdx + 1)

\* the column loop of clear(devIdx)
RECURSIVE clearLoop(_, _, _)
clearLoop(m, devIdx, colIdx) ==
    IF colIdx >= maxColumns THEN m
    ELSE clearLoop(
             spiTransfer([m EXCEPT !.buffer[colIndex(devIdx, colIdx)] = 0],
                         devIdx, U8(OP_DIGIT0 + colIdx), 0),
             devIdx, colIdx + 1)

\* (faulty variant of clear: the flag of the device is left as it was)
clear_LeavesFlag(m, devIdx) ==
    IF devIdx >= m.devsNum THEN m
    ELSE clearLoop(m, devIdx, 0)

\* (faulty variant of clear: the device is flagged only when a byte of its
\* buffer was not zero)
clear_FlagsOnChange(m, devIdx) ==
    IF devIdx >= m.devsNum THEN m
    ELSE LET changed == \E colIdx \in 0..(maxColumns - 1) :
                            m.buffer[colIndex(devIdx, colIdx)] # 0
         IN clearLoop([m EXCEPT !.update[devIdx] = IF changed THEN TRUE ELSE @],
                      devIdx, 0)

\* clear(devIdx)
clear(m, devIdx) ==
    IF devIdx >= m.devsNum THEN m
    ELSE clearLoop([m EXCEPT !.update[devIdx] = TRUE], devIdx, 0)

\* clear(): every device in turn
RECURSIVE clearAllLoop(_, _)
clearAllLoop(m, d) ==
    IF d >= m.devsNum THEN m ELSE clearAllLoop(clear(m, d), d + 1)

clearAll(m) == clearAllLoop(m, 0)

\* (faulty variant of setLed: the bit is never cleared)
setLed_NeverClears(m, devIdx, rowIdx, colIdx, state) ==
    IF devIdx >= m.devsNum \/ rowIdx >= maxRows(devIdx) \/ colIdx >= maxColumns
    THEN m
    ELSE LET prior == m.buffer[colIndex(devIdx, colIdx)]
             val == OR8(prior, bitMaskRow(devIdx, rowIdx))
         IN [m EXCEPT !.buffer[colIndex(devIdx, colIdx)] = val,
                      !.update[devIdx] = IF val # prior THEN TRUE ELSE @]

\* (faulty variant of setLed: the device is flagged whether or not the byte changed)
setLed_AlwaysFlags(m, devIdx, rowIdx, colIdx, state) ==
    IF devIdx >= m.devsNum \/ rowIdx >= maxRows(devIdx) \/ colIdx >= maxColumns
    THEN m
    ELSE LET prior == m.buffer[colIndex(devIdx, colIdx)]
             val == IF state THEN OR8(prior, bitMaskRow(devIdx, rowIdx))
                    ELSE AND8(prior, NOT8(bitMaskRow(devIdx, rowIdx)))
         IN [m EXCEPT !.buffer[colIndex(devIdx, colIdx)] = val,
                      !.update[devIdx] = TRUE]

\* (faulty variant of setLed: the column is sent to the chip at once)
setLed_WritesThrough(m, devIdx, rowIdx, colIdx, state) ==
    IF devIdx >= m.devsNum \/ rowIdx >= maxRows(devIdx) \/ colIdx >= maxColumns
    THEN m
    ELSE LET prior == m.buffer[colIndex(devIdx, colIdx)]
             val == IF state THEN OR8(prior, bitMaskRow(devIdx, rowIdx))
                    ELSE AND8(prior, NOT8(bitMaskRow(devIdx, rowIdx)))
         IN writeColToAllDevices(
                [m EXCEPT !.buffer[colIndex(devIdx, colIdx)] = val,
                          !.update[devIdx] = IF val # prior THEN TRUE ELSE @],
                devIdx, colIdx, val)

\* setLed (the Serial prints after the update do not reach the bus)
setLed(m, devIdx, rowIdx, colIdx, state) ==
    IF devIdx >= m.devsNum \/ rowIdx >= maxRows(devIdx) \/ colIdx >= maxColumns
    THEN m
    ELSE LET prior == m.buffer[colIndex(devIdx, colIdx)]
             val == IF state THEN OR8(prior, bitMaskRow(devIdx, rowIdx))
                    ELSE AND8(prior, NOT8(bitMaskRow(devIdx, rowIdx)))
         IN [m EXCEPT !.buffer[colIndex(devIdx, colIdx)] = val,
                      !.update[devIdx] = IF val # prior THEN TRUE ELSE @]

\* (faulty variant of getLed: the column is not tested, so a column past the last
\* reads the byte that follows in the buffer)
getLed_NoColCheck(m, devIdx, rowIdx, colIdx) ==
    IF devIdx >= m.devsNum \/ rowIdx >= maxRows(devIdx) THEN FALSE
    ELSE IF colIndex(devIdx, colIdx) \notin DOMAIN m.buffer THEN FALSE
    ELSE AND8(m.buffer[colIndex(devIdx, colIdx)], bitMaskRow(devIdx, rowIdx)) # 0

\* getLed
getLed(m, devIdx, rowIdx, colIdx) ==
    IF devIdx >= m.devsNum \/ rowIdx >= maxRows(devIdx) \/ colIdx >= maxColumns
    THEN FALSE
    ELSE AND8(m.buffer[colIndex(devIdx, colIdx)], bitMaskRow(devIdx, rowIdx)) # 0

\* (faulty variant of setCol: the device is flagged whether or not the byte changed)
setCol_AlwaysFlags(m, devIdx, colIdx, value) ==
    IF devIdx >= m.devsNum \/ colIdx >= maxColumns THEN m
    ELSE [m EXCEPT !.buffer[colIndex(devIdx, colIdx)] = value,
                   !.update[devIdx] = TRUE]

\* (faulty variant of setCol: writing the byte already stored takes the flag of
\* the device away)
setCol_Unflags(m, devIdx, colIdx, value) ==
    IF devIdx >= m.devsNum \/ colIdx >= maxColumns THEN m
    ELSE IF m.buffer[colIndex(devIdx, colIdx)] # value
         THEN [m EXCEPT !.buffer[colIndex(devIdx, colIdx)] = value,
                        !.update[devIdx] = TRUE]
         ELSE [m EXCEPT !.update[devIdx] = FALSE]

\* (faulty variant of setCol: the most significant bit of the byte is not stored)
setCol_DropsMsb(m, devIdx, colIdx, value) ==
    IF devIdx >= m.devsNum \/ colIdx >= maxColumns THEN m
    ELSE IF m.buffer[colIndex(devIdx, colIdx)] # AND8(value, 127)
         THEN [m EXCEPT !.buffer[colIndex(devIdx, colIdx)] = AND8(value, 127),
                        !.update[devIdx] = TRUE]
         ELSE m

\* setCol
setCol(m, devIdx, colIdx, value) ==
    IF devIdx >= m.devsNum \/ colIdx >= maxColumns THEN m
    ELSE IF m.buffer[colIndex(devIdx, colIdx)] # value
         THEN [m EXCEPT !.buffer[colIndex(devIdx, colIdx)] = value,
                        !.update[devIdx] = TRUE]
         ELSE m

\* (faulty variant of showColLoop: the last column is left out)
RECURSIVE showColLoop_OffByOne(_, _, _)
showColLoop_OffByOne(m, devIdx, colIdx) ==
    IF colIdx >= maxColumns - 1 THEN m
    ELSE showColLoop_OffByOne(
             writeColToAllDevices(m, devIdx, colIdx,
                                  m.buffer[colIndex(devIdx, colIdx)]),
             devIdx, colIdx + 1)

\* the column loop of show: one _writeColToAllDevices per column
RECURSIVE showColLoop(_, _, _)
showColLoop(m, devIdx, colIdx) ==
    IF colIdx >= maxColumns THEN m
    ELSE showColLoop(
             writeColToAllDevices(m, devIdx, colIdx,
                                  m.buffer[colIndex(devIdx, colIdx)]),
             devIdx, colIdx + 1)

\* (faulty variant of showOneSoft: the flag is cleared and no column is sent)
showOneSoft_FlagOnly(m, devIdx) ==
    IF devIdx >= m.devsNum \/ ~m.update[devIdx] THEN m
    ELSE [m EXCEPT !.update[devIdx] = FALSE]

\* SBK_MAX72xxSoft::show(devIdx)
showOneSoft(m, devIdx) ==
    IF devIdx >= m.devsNum \/ ~m.update[devIdx] THEN m
    ELSE [showColLoop(m, devIdx, 0) EXCEPT !.update[devIdx] = FALSE]

\* SBK_MAX72xxHard::show(devIdx): the transaction is begun before the test
\* of the arguments, and the early return leaves it open
showOneHard(m, devIdx) ==
    LET b == beginTransaction(m)
    IN IF devIdx >= b.devsNum \/ ~b.update[devIdx] THEN b
       ELSE endTransaction(
                [showColLoop(b, devIdx, 0) EXCEPT !.update[devIdx] = FALSE])

\* show(devIdx)
showOne(m, devIdx) ==
    IF m.variant = "Hard" THEN showOneHard(m, devIdx) ELSE showOneSoft(m, devIdx)

\* SBK_MAX72xxSoft::show(): show(devIdx) for every device
RECURSIVE showAllSoftLoop(_, _)
showAllSoftLoop(m, devIdx) ==
    IF devIdx >= m.devsNum THEN m
    ELSE showAllSoftLoop(showOneSoft(m, devIdx), devIdx + 1)

\* (faulty variant of showAllHardLoop: the flag is not cleared after the columns)
RECURSIVE showAllHardLoop_KeepsFlag(_, _)
showAllHardLoop_KeepsFlag(m, devIdx) ==
    IF devIdx >= m.devsNum THEN m
    ELSE showAllHardLoop_KeepsFlag(
             IF m.update[devIdx] THEN showColLoop(m, devIdx, 0) ELSE m,
             devIdx + 1)

\* SBK_MAX72xxHard::show(): its own device loop inside one transaction
RECURSIVE showAllHardLoop(_, _)
showAllHardLoop(m, devIdx) ==
    IF devIdx >= m.devsNum THEN m
    ELSE showAllHardLoop(
             IF m.update[devIdx]
             THEN [showColLoop(m, devIdx, 0) EXCEPT !.update[devIdx] = FALSE]
             ELSE m,
             devIdx + 1)

\* show()
showAll(m) ==
    IF m.variant = "Hard"
    THEN endTransaction(showAllHardLoop(beginTransaction(m), 0))
    ELSE showAllSoftLoop(m, 0)

\* (faulty variant of beginLoop: the columns are cleared before the scan limit,
\* the decode mode and the display test are written)
RECURSIVE beginLoop_ClearFirst(_, _)
beginLoop_ClearFirst(m, i) ==
    IF i >= m.devsNum THEN m
    ELSE LET m1 == setShutdown(m, i, FALSE)
             m2 == clear(m1, i)
             m3 == setScanLimit(m2, i, U8(maxColumns - 1))
             m4 == spiTransfer(m3, i, OP_DECODEMODE, 0)
             m5 == testMode(m4, i, FALSE)
             m6 == setBrightness(m5, i, 8)
         IN beginLoop_ClearFirst(m6, i + 1)

\* the device loop of begin()
RECURSIVE beginLoop(_, _)
beginLoop(m, i) ==
    IF i >= m.devsNum THEN m
    ELSE LET m1 == setShutdown(m, i, FALSE)
             m2 == setScanLimit(m1, i, U8(maxColumns - 1))
             m3 == spiTransfer(m2, i, OP_DECODEMODE, 0)
             m4 == testMode(m3, i, FALSE)
             m5 == clear(m4, i)
             m6 == setBrightness(m5, i, 8)
         IN beginLoop(m6, i + 1)

\* begin(): the select line is driven high, then every device is programmed;
\* the hardware variant wraps the loop in one SPI transaction
begin(m) ==
    LET m0 == digitalWriteCS(m, HIGH)
    IN IF m.variant = "Hard"
       THEN endTransaction(beginLoop(beginTransaction(m0), 0))
       ELSE beginLoop(m0, 0)

(***************************************************************************)
(* State.                                                                  *)
(***************************************************************************)
VARIABLES
    variant,        \* which class the object is: "Hard" or "Soft"
    devsNum,        \* _devsNum
    buffer,         \* _buffer, indexed from 0
    update,         \* _update, indexed from 0
    cs,             \* level of the select pin
    shiftReg,       \* the chain's shift register, 2 bytes per chip
    hw,             \* hw[d][a]: register a of chip d (NoData: never written)
    inTransaction,  \* an SPI transaction is held (hardware variant)
    wire,           \* bus events of the last call
    call,           \* the last call and its arguments
    ret,            \* what the last call returned (getLed)
    pre,            \* the machine as the last call found it
    sinceFlush,     \* history: what touched device d since it was last shown
    nOps,           \* calls made so far
    twin            \* an object of the other class, given the same calls

vars == <<variant, devsNum, buffer, update, cs, shiftReg, hw, inTransaction,
          wire, call, ret, pre, sinceFlush, nOps, twin>>

Devices == 0..(devsNum - 1)

\* the machine the next call finds, its log empty
Cur ==
    [variant |-> variant, devsNum |-> devsNum, buffer |-> buffer,
     update |-> update, cs |-> cs, shiftReg |-> shiftReg, hw |-> hw,
     inTransaction |-> inTransaction, wire |-> <<>>]

Call(op, dev, row, col, value, flag) ==
    [op |-> op, dev |-> dev, row |-> row, col |-> col, value |-> value,
     flag |-> flag]

\* the constructor: _devsNum(constrain(devsNum, 1, 8)), the buffer zeroed by
\* memset, the flags value-initialised to false
Construct(v, n) ==
    LET N == constrain(n, 1, 8)
    IN [variant |-> v, devsNum |-> N,
        buffer |-> [i \in 0..(N * defaultColBufferSize - 1) |-> 0],
        update |-> [d \in 0..(N - 1) |-> FALSE],
        cs |-> HIGH,
        shiftReg |-> [i \in 1..(2 * N) |-> 0],
        hw |-> [d \in 0..(N - 1) |-> [a \in 1..15 |-> NoData]],
        inTransaction |-> FALSE,
        wire |-> <<>>]

\* the other class of the two
OtherVariant(v) == IF v = "Hard" THEN "Soft" ELSE "Hard"

Init ==
    \E v \in Variants, n \in DevsNumArgs :
        LET m == Construct(v, n)
        IN /\ variant = m.variant
           /\ devsNum = m.devsNum
           /\ buffer = m.buffer
           /\ update = m.update
           /\ cs = m.cs
           /\ shiftReg = m.shiftReg
           /\ hw = m.hw
           /\ inTransaction = m.inTransaction
           /\ wire = m.wire
           /\ call = Call("construct", n, 0, 0, 0, FALSE)
           /\ ret = FALSE
           /\ pre = m
           /\ sinceFlush = [d \in 0..(m.devsNum - 1) |-> {}]
           /\ nOps = 0
           /\ twin = Construct(OtherVariant(v), n)

\* history of device d after call c took the machine from Cur to m
SinceFlushAfter(c, m, d) ==
    IF c.op = "show" \/ (c.op = "showOne" /\ c.dev = d) THEN {}
    ELSE sinceFlush[d]
         \cup (IF \E col \in 0..(defaultColBufferSize - 1) :
                     m.buffer[d * defaultColBufferSize + col]
                         # buffer[d * defaultColBufferSize + col]
               THEN {"changed"} ELSE {})
         \cup (IF c.op \in {"clearAll", "begin"} \/ (c.op = "clear" /\ c.dev = d)
               THEN {"cleared"} ELSE {})

\* calls the object may still receive
Budget == IF devsNum = constrain(255, 1, 8) THEN MaxOpsLong ELSE MaxOps

\* no call is being looked at: the next one may be made
Idle == call.op \in {"construct", "idle"}

\* call c ran to completion and left the machine m, returning r; the same
\* call on the object of the other class left the machine t
Done(c, m, r, t) ==
    /\ Idle
    /\ nOps < Budget
    /\ nOps' = nOps + 1
    /\ variant' = m.variant
    /\ devsNum' = m.devsNum
    /\ buffer' = m.buffer
    /\ update' = m.update
    /\ cs' = m.cs
    /\ shiftReg' = m.shiftReg
    /\ hw' = m.hw
    /\ inTransaction' = m.inTransaction
    /\ wire' = m.wire
    /\ call' = c
    /\ ret' = r
    /\ pre' = Cur
    /\ sinceFlush' = [d \in Devices |-> SinceFlushAfter(c, m, d)]
    /\ twin' = t

(***************************************************************************)
(* Arguments the calls are tried with.                                     *)
(***************************************************************************)
\* devices in range: the nearest, the next and the farthest of the chain
InRange == {0, 1, devsNum - 1} \cap Devices

\* and out of range: the first invalid index
DevArgs == InRange \cup {devsNum}

\* devices the register writes are tried with: one in range and one out of
\* range each, the in-range ones covering the nearest, the next and the
\* farthest chip of the chain
ShutdownDevArgs == {0, devsNum}

ScanLimitDevArgs == {devsNum - 1, 255}

BrightnessDevArgs == {IF devsNum > 1 THEN 1 ELSE 0, devsNum}

TestModeDevArgs == {devsNum - 1, devsNum}

\* (row, col) in range
LedCoords == {<<0, 3>>, <<7, 0>>}

\* (device, row, col) out of range in the device, the row, the column, or all
BadLedArgs ==
    {<<devsNum, 0, 3>>, <<0, 8, 3>>, <<0, 7, 8>>, <<255, 255, 255>>}

SetLedArgs ==
    {<<d, rc[1], rc[2], s>> : d \in InRange, rc \in LedCoords, s \in BOOLEAN}
        \cup {<<a[1], a[2], a[3], TRUE>> : a \in BadLedArgs}

GetLedArgs ==
    {<<devsNum - 1, 0, 3>>, <<0, 7, 0>>} \cup BadLedArgs

\* column bytes written by setCol
ColValues == {0, 170}

SetColArgs ==
    {<<d, 3, v>> : d \in InRange, v \in ColValues}
        \cup {<<devsNum, 3, 170>>, <<0, 8, 170>>}

\* raw limit and brightness values beyond the mask
LimitArgs == {15}

BrightnessArgs == {24}

(***************************************************************************)
(* One action per public call.                                             *)
(***************************************************************************)
Begin == Done(Call("begin", 0, 0, 0, 0, FALSE), begin(Cur), FALSE, begin(twin))

SetShutdown ==
    \E d \in ShutdownDevArgs, status \in BOOLEAN :
        Done(Call("setShutdown", d, 0, 0, 0, status),
             setShutdown(Cur, d, status), FALSE,
             setShutdown(twin, d, status))

SetScanLimit ==
    \E d \in ScanLimitDevArgs, limit \in LimitArgs :
        Done(Call("setScanLimit", d, 0, 0, limit, FALSE),
             setScanLimit(Cur, d, limit), FALSE,
             setScanLimit(twin, d, limit))

SetBrightness ==
    \E d \in BrightnessDevArgs, b \in BrightnessArgs :
        Done(Call("setBrightness", d, 0, 0, b, FALSE),
             setBrightness(Cur, d, b), FALSE,
             setBrightness(twin, d, b))

TestMode ==
    \E d \in TestModeDevArgs, enable \in BOOLEAN :
        Done(Call("testMode", d, 0, 0, 0, enable),
             testMode(Cur, d, enable), FALSE,
             testMode(twin, d, enable))

TestModeAll ==
    \E enable \in BOOLEAN :
        Done(Call("testModeAll", 0, 0, 0, 0, enable),
             testModeAll(Cur, enable), FALSE,
             testModeAll(twin, enable))

Clear ==
    \E d \in DevArgs :
        Done(Call("clear", d, 0, 0, 0, FALSE), clear(Cur, d), FALSE,
             clear(twin, d))

ClearAll ==
    Done(Call("clearAll", 0, 0, 0, 0, FALSE), clearAll(Cur), FALSE,
         clearAll(twin))

SetLed ==
    \E a \in SetLedArgs :
        Done(Call("setLed", a[1], a[2], a[3], 0, a[4]),
             setLed(Cur, a[1], a[2], a[3], a[4]), FALSE,
             setLed(twin, a[1], a[2], a[3], a[4]))

GetLed ==
    \E a \in GetLedArgs :
        Done(Call("getLed", a[1], a[2], a[3], 0, FALSE),
             Cur, getLed(Cur, a[1], a[2], a[3]), twin)

SetCol ==
    \E a \in SetColArgs :
        Done(Call("setCol", a[1], 0, a[2], a[3], FALSE),
             setCol(Cur, a[1], a[2], a[3]), FALSE,
             setCol(twin, a[1], a[2], a[3]))

ShowAll ==
    Done(Call("show", 0, 0, 0, 0, FALSE), showAll(Cur), FALSE, showAll(twin))

ShowOne ==
    \E d \in DevArgs :
        Done(Call("showOne", d, 0, 0, 0, FALSE), showOne(Cur, d), FALSE,
             showOne(twin, d))

\* the caller goes on: the record of the call it made is dropped and the
\* object, the bus and the chips stay as the call left them
Return ==
    /\ ~Idle
    /\ nOps < Budget
    /\ call' = Call("idle", 0, 0, 0, 0, FALSE)
    /\ ret' = FALSE
    /\ wire' = <<>>
    /\ pre' = Cur
    /\ twin' = [twin EXCEPT !.wire = <<>>]
    /\ UNCHANGED <<variant, devsNum, buffer, update, cs, shiftReg, hw,
                   inTransaction, sinceFlush, nOps>>

Next ==
    \/ Return
    \/ Begin
    \/ SetShutdown
    \/ SetScanLimit
    \/ SetBrightness
    \/ TestMode
    \/ TestModeAll
    \/ Clear
    \/ ClearAll
    \/ SetLed
    \/ GetLed
    \/ SetCol
    \/ ShowAll
    \/ ShowOne

Spec == Init /\ [][Next]_vars

(***************************************************************************)
(* What the properties below speak of.                                     *)
(***************************************************************************)
\* the select-line writes and the bytes of a log, without the SPI
\* transaction marks
BusEvents(w) == SelectSeq(w, LAMBDA e : e.k \in {"cs", "byte"})

\* event k of the framed write of (op, data) to device t on a chain of N:
\* select low, one pair per device from N - 1 down to 0, select high
FrameAt(N, t, op, data, k) ==
    IF k = 1 THEN Ev("cs", LOW)
    ELSE IF k = 2 * N + 2 THEN Ev("cs", HIGH)
    ELSE LET dev == (N - 1) - ((k - 2) \div 2)
         IN Ev("byte", IF dev # t THEN 0 ELSE IF k % 2 = 0 THEN op ELSE data)

Frame(N, t, op, data) == [k \in 1..(2 * N + 2) |-> FrameAt(N, t, op, data, k)]

\* the eight column writes of device d, columns 0..7, from buffer buf
FlushFrames(N, d, buf) ==
    [k \in 1..(8 * (2 * N + 2)) |->
        LET c == (k - 1) \div (2 * N + 2)
        IN FrameAt(N, d, c + 1, buf[8 * d + c], ((k - 1) % (2 * N + 2)) + 1)]

\* the devices of set S in ascending order
Ascending(S) ==
    [i \in 1..Cardinality(S) |->
        CHOOSE d \in S : Cardinality({e \in S : e < d}) = i - 1]

\* the column writes of the devices of S, device after device in ascending order
FlushFramesOfAll(N, S, buf) ==
    LET order == Ascending(S)
        len == 8 * (2 * N + 2)
    IN [k \in 1..(Cardinality(S) * len) |->
            FlushFrames(N, order[((k - 1) \div len) + 1], buf)[((k - 1) % len) + 1]]

DirtyBefore == {d \in Devices : pre.update[d]}

\* the call at hand addresses a device of the chain
DevInRange == call.dev < devsNum

\* the registers of chip d
DigitRegs(d) == [c \in 0..7 |-> hw[d][c + 1]]

BufferOf(buf, d) == [c \in 0..7 |-> buf[8 * d + c]]

(***************************************************************************)
(* C1. One framed transport write of (opcode, data) to device t < N puts   *)
(* on the wire select low, N pairs for devices N-1 down to 0 of which the  *)
(* pair of t is (opcode, data) and every other pair (0, 0), select high,   *)
(* and nothing else.  Checked on the calls that make exactly one such      *)
(* write.                                                                  *)
(***************************************************************************)
C1_FramedWrite ==
    DevInRange =>
        /\ call.op = "setShutdown" =>
              wire = Frame(devsNum, call.dev, 12, IF call.flag THEN 0 ELSE 1)
        /\ call.op = "setScanLimit" =>
              wire = Frame(devsNum, call.dev, 11, call.value % 8)
        /\ call.op = "setBrightness" =>
              wire = Frame(devsNum, call.dev, 10, call.value % 16)
        /\ call.op = "testMode" =>
              wire = Frame(devsNum, call.dev, 15, IF call.flag THEN 1 ELSE 0)

C1_Witness ==
    /\ call.op = "setBrightness"
    /\ devsNum = 3
    /\ call.dev = 1
    /\ wire = <<Ev("cs", LOW), Ev("byte", 0), Ev("byte", 0), Ev("byte", 10),
                Ev("byte", 8), Ev("byte", 0), Ev("byte", 0), Ev("cs", HIGH)>>

(***************************************************************************)
(* C2. With every chip latching, when the select line rises, the 16 bits   *)
(* at its position of the chain, a register write or a column flush        *)
(* addressed to device t leaves the registers of every other device as     *)
(* they were.                                                              *)
(***************************************************************************)
C2_OtherChipsUntouched ==
    call.op \in {"setShutdown", "setScanLimit", "setBrightness", "testMode",
                 "clear", "showOne"} =>
        \A d \in Devices : d # call.dev => hw[d] = pre.hw[d]

C2_Witness ==
    /\ call.op = "showOne"
    /\ devsNum = 3
    /\ call.dev = 1
    /\ hw[1] # pre.hw[1]
    /\ hw[0][12] # NoData
    /\ hw[2] = pre.hw[2]

(***************************************************************************)
(* C3. show() goes through the devices in ascending order; for each one    *)
(* whose flag is set it sends the 8 framed column writes, columns 0..7,    *)
(* each (c + 1, buffer byte of (device, c)), and clears the flag; for a    *)
(* device whose flag is not set it sends nothing.                          *)
(***************************************************************************)
C3_ShowAll ==
    call.op = "show" =>
        /\ BusEvents(wire) = FlushFramesOfAll(devsNum, DirtyBefore, pre.buffer)
        /\ \A d \in DirtyBefore : ~update[d]

C3_Witness ==
    /\ call.op = "show"
    /\ devsNum = 3
    /\ DirtyBefore = {1, 2}
    /\ Len(BusEvents(wire)) = 128
    /\ pre.buffer[11] = 128

(***************************************************************************)
(* C4. After show() no device is flagged; and a show() that finds no       *)
(* device flagged, as a second show() with no buffer write in between      *)
(* does, sends no byte and never writes the select line.                   *)
(***************************************************************************)
C4_ShowLeavesClean ==
    call.op = "show" =>
        /\ \A d \in Devices : ~update[d]
        /\ DirtyBefore = {} => BusEvents(wire) = <<>> /\ cs = pre.cs

C4_Witness ==
    /\ call.op = "show"
    /\ DirtyBefore = {}
    /\ nOps = 3
    /\ \E d \in Devices : hw[d][4] = 128 /\ buffer[8 * d + 3] = 128
    /\ BusEvents(wire) = <<>>

(***************************************************************************)
(* C5. The flags are exact: update[d] holds if and only if the buffer of   *)
(* device d differs from what was last sent to the digit registers of its  *)
(* chip, or the device was not shown since a byte of its buffer last       *)
(* changed.  (A register never written differs from nothing.)              *)
(***************************************************************************)
Differs(d) ==
    \E c \in 0..7 : hw[d][c + 1] # NoData /\ hw[d][c + 1] # buffer[8 * d + c]

C5_DirtyExact ==
    \A d \in Devices : update[d] <=> (Differs(d) \/ "changed" \in sinceFlush[d])

\* C5 as amended: ... or the device was not shown since a byte of its buffer
\* last changed or since it was last cleared (clear(d), clear() or begin()).
C5_DirtyExactOrCleared ==
    \A d \in Devices : update[d] <=> (Differs(d) \/ sinceFlush[d] # {})

C5_Witness ==
    /\ call.op = "clear"
    /\ DevInRange
    /\ update[call.dev]
    /\ ~Differs(call.dev)
    /\ sinceFlush[call.dev] = {"cleared"}
    /\ \E d \in Devices : ~update[d] /\ DigitRegs(d) = BufferOf(buffer, d)
                                     /\ buffer[8 * d + 3] # 0

(***************************************************************************)
(* C6. show(d) for a flagged device d of the chain sends exactly the 8     *)
(* framed column writes of d, columns 0..7 in order; on a chain of 3 whose *)
(* only lit LED is (1, 0, 3), show(1) sends for column 3: select low,      *)
(* (0,0), (4,0x80), (0,0), select high.                                    *)
(***************************************************************************)
OnlyLit(m, d, r, c) ==
    \A x \in 0..(m.devsNum - 1), y \in 0..7, z \in 0..7 :
        getLed(m, x, y, z) <=> (<<x, y, z>> = <<d, r, c>>)

C6_ShowOne ==
    (call.op = "showOne" /\ DevInRange /\ pre.update[call.dev]) =>
        /\ BusEvents(wire) = FlushFrames(devsNum, call.dev, pre.buffer)
        /\ (devsNum = 3 /\ call.dev = 1 /\ OnlyLit(pre, 1, 0, 3)) =>
              SubSeq(BusEvents(wire), 25, 32)
                  = <<Ev("cs", LOW), Ev("byte", 0), Ev("byte", 0),
                      Ev("byte", 4), Ev("byte", 128), Ev("byte", 0),
                      Ev("byte", 0), Ev("cs", HIGH)>>

C6_Witness ==
    /\ call.op = "showOne"
    /\ devsNum = 3
    /\ call.dev = 1
    /\ pre.update[1]
    /\ OnlyLit(pre, 1, 0, 3)
    /\ Len(BusEvents(wire)) = 64
    /\ hw[1][4] = 128

(***************************************************************************)
(* C7. show(d) changes only update[d]: it clears it when d is in range and *)
(* flagged and leaves every other flag and every buffer byte as they were; *)
(* when d is out of range or not flagged it does nothing at all: nothing   *)
(* is sent, the select line is not written, no state changes.              *)
(***************************************************************************)
C7_ShowOneFrame ==
    call.op = "showOne" =>
        /\ buffer = pre.buffer
        /\ \A d \in Devices : d # call.dev => update[d] = pre.update[d]
        /\ (DevInRange /\ pre.update[call.dev]) => ~update[call.dev]
        /\ ~(DevInRange /\ pre.update[call.dev]) =>
              /\ wire = <<>>
              /\ Cur = pre

(***************************************************************************)
(* C8. For every (d, r, c) in range: after setLed(d, r, c, true) getLed    *)
(* (d, r, c) is true, after setLed(d, r, c, false) it is false, and getLed *)
(* of every other coordinate is what it was.                               *)
(***************************************************************************)
LedInRange == call.dev < devsNum /\ call.row < 8 /\ call.col < 8

C8_SetLedGetLed ==
    (call.op = "setLed" /\ LedInRange) =>
        /\ getLed(Cur, call.dev, call.row, call.col) = call.flag
        /\ \A x \in Devices, y \in 0..7, z \in 0..7 :
              <<x, y, z>> # <<call.dev, call.row, call.col>> =>
                  getLed(Cur, x, y, z) = getLed(pre, x, y, z)

C8_Witness ==
    /\ call.op = "setLed"
    /\ LedInRange
    /\ ~call.flag
    /\ getLed(pre, call.dev, call.row, call.col)
    /\ ~getLed(Cur, call.dev, call.row, call.col)
    /\ \E y \in 0..7 :
          /\ y # call.row
          /\ getLed(Cur, call.dev, y, call.col)

(***************************************************************************)
(* C9. A buffer write that leaves the stored byte as it was never flags    *)
(* the device: setLed with the state the LED already has, or setCol with   *)
(* the byte already stored, on a device that is not flagged leaves it not  *)
(* flagged; a write that changes the stored byte flags the device.         *)
(***************************************************************************)
C9_FlagOnlyOnChange ==
    /\ (call.op = "setLed" /\ LedInRange) =>
          /\ (getLed(pre, call.dev, call.row, call.col) = call.flag
                  /\ ~pre.update[call.dev]) => ~update[call.dev]
          /\ getLed(pre, call.dev, call.row, call.col) # call.flag =>
                  update[call.dev]
    /\ (call.op = "setCol" /\ DevInRange /\ call.col < 8) =>
          /\ (pre.buffer[8 * call.dev + call.col] = call.value
                  /\ ~pre.update[call.dev]) => ~update[call.dev]
          /\ pre.buffer[8 * call.dev + call.col] # call.value =>
                  update[call.dev]

\* setLed on, show, the same setLed: the LED is lit, known to the chip, and
\* the device stays unflagged
C9_Witness ==
    /\ call.op = "setLed"
    /\ LedInRange
    /\ call.flag
    /\ getLed(pre, call.dev, call.row, call.col)
    /\ ~pre.update[call.dev]
    /\ ~update[call.dev]
    /\ DigitRegs(call.dev) = BufferOf(buffer, call.dev)

(***************************************************************************)
(* C10. Out-of-range buffer accesses do nothing: setLed with device >=     *)
(* devsNum, row >= 8 or col >= 8, and setCol with device >= devsNum or     *)
(* col >= 8, change no buffer byte and no flag and send nothing; getLed    *)
(* with any index out of range returns false.                              *)
(***************************************************************************)
C10_OutOfRange ==
    /\ (call.op = "setLed" /\ ~LedInRange) =>
          buffer = pre.buffer /\ update = pre.update /\ wire = <<>>
    /\ (call.op = "setCol" /\ ~(DevInRange /\ call.col < 8)) =>
          buffer = pre.buffer /\ update = pre.update /\ wire = <<>>
    /\ (call.op = "getLed" /\ ~LedInRange) => ret = FALSE

\* getLed(0, 7, 8) while the LED one column past device 0, (1, 7, 0), is lit
C10_Witness ==
    /\ call.op = "getLed"
    /\ call.dev = 0 /\ call.row = 7 /\ call.col = 8
    /\ devsNum >= 2
    /\ getLed(Cur, 1, 7, 0)
    /\ ret = FALSE

(***************************************************************************)
(* C11. A register write or a clear addressed to a device that is not of   *)
(* the chain is dropped: setShutdown, setScanLimit, setBrightness,         *)
(* testMode and clear with device >= devsNum send no byte, never write the *)
(* select line, and change no buffer byte and no flag.                     *)
(***************************************************************************)
C11_OutOfRangeDropped ==
    (call.op \in {"setShutdown", "setScanLimit", "setBrightness", "testMode",
                  "clear"} /\ ~DevInRange) =>
        /\ wire = <<>>
        /\ cs = pre.cs
        /\ shiftReg = pre.shiftReg
        /\ hw = pre.hw
        /\ buffer = pre.buffer
        /\ update = pre.update

\* setScanLimit(255, ...) on a chain whose chips were programmed: 255 is -1
\* as int8_t and matches no device of the loop
C11_Witness ==
    /\ call.op = "setScanLimit"
    /\ call.dev = 255
    /\ wire = <<>>
    /\ \A d \in Devices : hw[d][OP_SCANLIMIT] = 7

(***************************************************************************)
(* C12. begin() leaves every device awake: the value it writes to the      *)
(* SHUTDOWN register of each chip is the value setShutdown(d, true) sends, *)
(* which is 0.                                                             *)
(***************************************************************************)
C12_BeginWakes ==
    call.op = "begin" =>
        \A d \in Devices :
            /\ hw[d][OP_SHUTDOWN] = setShutdown(Cur, d, TRUE).hw[d][OP_SHUTDOWN]
            /\ hw[d][OP_SHUTDOWN] = 0

(***************************************************************************)
(* C13. begin() programs the devices in ascending order and sends, for     *)
(* each device d, the framed writes SHUTDOWN, SCANLIMIT with 7, DECODEMODE *)
(* with 0, DISPLAYTEST with 0, the digit registers 1..8 with 0, INTENSITY  *)
(* with 8, in this order: scan limit, decode mode and display test are     *)
(* written before any digit of that device.                                *)
(***************************************************************************)
\* the writes of one device, x the byte written to its SHUTDOWN register
BeginFramesOf(N, d, x) ==
    Frame(N, d, 12, x) \o Frame(N, d, 11, 7) \o Frame(N, d, 9, 0)
        \o Frame(N, d, 15, 0)
        \o FlushFrames(N, d, [i \in 0..(8 * N - 1) |-> 0])
        \o Frame(N, d, 10, 8)

\* the writes of devices d..N-1, device after device
RECURSIVE BeginFramesFrom(_, _, _)
BeginFramesFrom(N, d, x) ==
    IF d >= N THEN <<>>
    ELSE BeginFramesOf(N, d, x) \o BeginFramesFrom(N, d + 1, x)

\* begin() first drives the select line high, then sends the writes
C13_BeginOrder ==
    call.op = "begin" =>
        \E x \in 0..255 :
            BusEvents(wire) = <<Ev("cs", HIGH)>> \o BeginFramesFrom(devsNum, 0, x)

C13_Witness ==
    /\ call.op = "begin"
    /\ devsNum = 3
    /\ Len(BusEvents(wire)) = 1 + 3 * 13 * 8
    /\ BusEvents(wire)[1 + 13 * 8 + 2] = Ev("byte", 0)
    /\ BusEvents(wire)[1 + 13 * 8 + 4] = Ev("byte", 12)
    /\ \A d \in Devices : hw[d][OP_SCANLIMIT] = 7 /\ hw[d][OP_INTENSITY] = 8
                          /\ hw[d][OP_DECODEMODE] = 0 /\ hw[d][OP_DISPLAYTEST] = 0
                          /\ hw[d][8] = 0

(***************************************************************************)
(* C14. clear(d) for a device d of the chain, whatever its flag was, sets  *)
(* the 8 buffer bytes of d to zero and at once sends the 8 framed writes   *)
(* of 0 to the digit registers 1..8 of d, in column order, and leaves the  *)
(* buffer bytes and the flags of every other device as they were; clear()  *)
(* does so for every device.                                               *)
(***************************************************************************)
ZeroBuffer == [i \in 0..(8 * devsNum - 1) |-> 0]

C14_ClearWritesZeros ==
    /\ (call.op = "clear" /\ DevInRange) =>
          /\ BufferOf(buffer, call.dev) = [c \in 0..7 |-> 0]
          /\ wire = FlushFrames(devsNum, call.dev, ZeroBuffer)
          /\ DigitRegs(call.dev) = [c \in 0..7 |-> 0]
          /\ \A d \in Devices : d # call.dev =>
                /\ BufferOf(buffer, d) = BufferOf(pre.buffer, d)
                /\ update[d] = pre.update[d]
    /\ call.op = "clearAll" =>
          /\ buffer = ZeroBuffer
          /\ wire = FlushFramesOfAll(devsNum, Devices, ZeroBuffer)
          /\ \A d \in Devices : DigitRegs(d) = [c \in 0..7 |-> 0]

\* clear of a device that is not flagged and holds a lit LED its chip knows
\* of, on a chain of three
C14_Witness ==
    /\ call.op = "clear"
    /\ devsNum = 3
    /\ call.dev = 1
    /\ ~pre.update[1]
    /\ pre.buffer[8 + 3] = 128
    /\ pre.hw[1][4] = 128
    /\ hw[1][4] = 0
    /\ Len(wire) = 64

(***************************************************************************)
(* C15. After clear(d) for a device d of the chain, the flag of d is not   *)
(* set (the buffer is what the chip holds), so a show that follows at once *)
(* sends nothing for device d.                                             *)
(***************************************************************************)
C15_ClearLeavesClean ==
    (call.op = "clear" /\ DevInRange) =>
        /\ ~update[call.dev]
        /\ BusEvents(showOne(Cur, call.dev).wire) = <<>>

\* C15 as amended: after clear(d) the flag of d is set although the buffer
\* is what the chip holds, so a show that follows at once sends the 8 zero
\* columns of d once more, and clears the flag.
C15_ClearLeavesDirty ==
    (call.op = "clear" /\ DevInRange) =>
        /\ update[call.dev]
        /\ DigitRegs(call.dev) = BufferOf(buffer, call.dev)
        /\ BusEvents(showOne(Cur, call.dev).wire)
               = FlushFrames(devsNum, call.dev, ZeroBuffer)
        /\ ~showOne(Cur, call.dev).update[call.dev]

\* clear(0) on a chain of 2 whose device 0 was not flagged
C15_Witness ==
    /\ call.op = "clear"
    /\ devsNum = 2
    /\ call.dev = 0
    /\ ~pre.update[0]
    /\ update[0]
    /\ Len(wire) = 48
    /\ Len(BusEvents(showOne(Cur, 0).wire)) = 48

(***************************************************************************)
(* C16. clear(d) and clear() flag the cleared device(s) whatever the       *)
(* buffer held, also when every byte of the device was zero already.       *)
(***************************************************************************)
C16_ClearAlwaysFlags ==
    /\ (call.op = "clear" /\ DevInRange) => update[call.dev]
    /\ call.op = "clearAll" => \A d \in Devices : update[d]

\* clear() on zero buffers that a show() left unflagged
C16_Witness ==
    /\ call.op = "clearAll"
    /\ devsNum >= 2
    /\ pre.buffer = ZeroBuffer
    /\ \A d \in Devices : ~pre.update[d] /\ pre.hw[d][1] = 0 /\ update[d]

(***************************************************************************)
(* C17. The two classes cannot be told apart from the bus: an object of    *)
(* SBK_MAX72xxHard and one of SBK_MAX72xxSoft, built for the same chain    *)
(* length and given the same calls, write the select line and send bytes   *)
(* in the same sequence, call after call, and hold the same buffer and the *)
(* same flags after each call.                                             *)
(***************************************************************************)
C17_VariantsEquivalent ==
    /\ twin.variant # variant
    /\ twin.devsNum = devsNum
    /\ BusEvents(twin.wire) = BusEvents(wire)
    /\ twin.buffer = buffer
    /\ twin.update = update
    /\ twin.cs = cs
    /\ twin.hw = hw

\* the third call is a show(d) that sends the columns of d: the logs differ
\* in the SPI transaction marks only
C17_Witness ==
    /\ call.op = "showOne"
    /\ nOps = 3
    /\ devsNum = 3
    /\ variant = "Soft"
    /\ twin.variant = "Hard"
    /\ Len(wire) = 64
    /\ Len(twin.wire) = 66
    /\ \E k \in 1..64 : wire[k].k = "byte" /\ wire[k].v = 128
    /\ \E d \in Devices : update[d]

(***************************************************************************)
(* C18. The flag of device d goes from set to not set only by show() or by *)
(* show(d): no other call (setLed, setCol, getLed, clear, setBrightness,   *)
(* setScanLimit, setShutdown, testMode, begin, show of another device)     *)
(* ever takes a flag away.                                                 *)
(***************************************************************************)
C18_OnlyShowUnflags ==
    \A d \in Devices :
        (~Idle /\ pre.update[d] /\ ~update[d]) =>
            \/ call.op = "show"
            \/ call.op = "showOne" /\ call.dev = d

\* show(d) on a chain where d and another device are flagged: the flag of d
\* goes, the other stays
C18_Witness ==
    /\ call.op = "showOne"
    /\ DevInRange
    /\ pre.update[call.dev]
    /\ ~update[call.dev]
    /\ \E d \in Devices : d # call.dev /\ pre.update[d] /\ update[d]
                          /\ buffer[8 * d + 3] # 0

(***************************************************************************)
(* C19. For a device d and a column c in range and a byte v: after         *)
(* setCol(d, c, v), getLed(d, r, c) is bit 7 - r of v for every row r of   *)
(* 0..7 (row 0 is the most significant bit), so after setCol(d, c, 0xAA)   *)
(* the rows 0..7 read 1,0,1,0,1,0,1,0; and the byte a show sends for       *)
(* column c afterwards is v.                                               *)
(***************************************************************************)
\* the framed write of column c in the log w of a show of one device
ColumnFrame(w, N, c) ==
    SubSeq(BusEvents(w), c * (2 * N + 2) + 1, (c + 1) * (2 * N + 2))

\* bytes the column is also tried with, from the state the call found
ByteSamples == {0, 1, 85, 128, 170, 254, 255}

C19_SetColRows ==
    (call.op = "setCol" /\ DevInRange /\ call.col < 8) =>
        /\ \A r \in 0..7 :
              getLed(Cur, call.dev, r, call.col) = (Bit(call.value, 7 - r) = 1)
        /\ \A v \in ByteSamples, r \in 0..7 :
              getLed(setCol(pre, call.dev, call.col, v), call.dev, r, call.col)
                  = (Bit(v, 7 - r) = 1)
        /\ call.value = 170 =>
              [r \in 0..7 |-> getLed(Cur, call.dev, r, call.col)]
                  = [r \in 0..7 |-> r % 2 = 0]
        /\ update[call.dev] =>
              /\ ColumnFrame(showOne(Cur, call.dev).wire, devsNum, call.col)
                     = Frame(devsNum, call.dev, call.col + 1, call.value)
              /\ showOne(Cur, call.dev).hw[call.dev][call.col + 1] = call.value
              /\ showAll(Cur).hw[call.dev][call.col + 1] = call.value

\* setCol(d, 3, 0xAA) on a device that had another LED of column 3 lit
C19_Witness ==
    /\ call.op = "setCol"
    /\ DevInRange
    /\ call.col = 3
    /\ call.value = 170
    /\ pre.buffer[8 * call.dev + 3] = 128
    /\ getLed(Cur, call.dev, 0, 3)
    /\ ~getLed(Cur, call.dev, 1, 3)
    /\ getLed(Cur, call.dev, 6, 3)
    /\ ~getLed(Cur, call.dev, 7, 3)
    /\ update[call.dev]

(***************************************************************************)
(* C20. Buffer calls stay in the buffer and shows only read it: setLed,    *)
(* setCol and getLed send no byte and never write the select line; show()  *)
(* and show(d) change no buffer byte; so a buffer byte is the value last   *)
(* written into it, shown or not: setLed and setCol change at most the     *)
(* byte they address, and the register writes change none.                 *)
(***************************************************************************)
C20_BufferOnly ==
    /\ call.op \in {"setLed", "setCol", "getLed"} =>
          /\ wire = <<>>
          /\ cs = pre.cs
          /\ shiftReg = pre.shiftReg
          /\ hw = pre.hw
    /\ call.op = "getLed" => buffer = pre.buffer /\ update = pre.update
    /\ call.op \in {"show", "showOne", "setShutdown", "setScanLimit",
                    "setBrightness", "testMode", "testModeAll"} =>
          buffer = pre.buffer
    /\ (call.op = "setCol" /\ DevInRange /\ call.col < 8) =>
          buffer = [pre.buffer EXCEPT ![8 * call.dev + call.col] = call.value]
    /\ (call.op = "setLed" /\ LedInRange) =>
          \A i \in DOMAIN buffer :
              i # 8 * call.dev + call.col => buffer[i] = pre.buffer[i]

\* a setLed that changes a byte of a device whose chip holds zeros: nothing
\* is sent, and chip and buffer differ until the device is shown
C20_Witness ==
    /\ call.op = "setLed"
    /\ LedInRange
    /\ call.flag
    /\ buffer[8 * call.dev + call.col] # pre.buffer[8 * call.dev + call.col]
    /\ hw[call.dev][call.col + 1] = 0
    /\ wire = <<>>
    /\ nOps = 3

(***************************************************************************)
(* C21. The register writes (setShutdown, setScanLimit, setBrightness,     *)
(* testMode) change no buffer byte and no flag; so a buffer write does to  *)
(* the buffer and the flags of a device put to shutdown what it does to    *)
(* those of a device that is awake.                                        *)
(***************************************************************************)
\* buffer and flags of machine m
BufferAndFlags(m) == <<m.buffer, m.update>>

C21_RegisterWritesKeepBuffer ==
    /\ call.op \in {"setShutdown", "setScanLimit", "setBrightness", "testMode",
                    "testModeAll"} =>
          buffer = pre.buffer /\ update = pre.update
    /\ (call.op = "setLed" /\ call.dev < devsNum) =>
          \A status \in BOOLEAN :
              BufferAndFlags(setLed(setShutdown(pre, call.dev, status),
                                    call.dev, call.row, call.col, call.flag))
                  = <<buffer, update>>
    /\ (call.op = "setCol" /\ call.dev < devsNum) =>
          \A status \in BOOLEAN :
              BufferAndFlags(setCol(setShutdown(pre, call.dev, status),
                                    call.dev, call.col, call.value))
                  = <<buffer, update>>

\* setLed on device 0 that setShutdown(0, false), not begin(), put to
\* shutdown: the byte changes and the device is flagged
C21_Witness ==
    /\ call.op = "setLed"
    /\ call.dev = 0
    /\ LedInRange
    /\ hw[0][OP_SHUTDOWN] = 1
    /\ hw[0][OP_DECODEMODE] = NoData
    /\ ~pre.update[0]
    /\ update[0]
    /\ buffer # pre.buffer

(***************************************************************************)
(* C22. The numeric register parameters are truncated, never rejected:     *)
(* for every 8-bit level, setBrightness(d, level) sends INTENSITY (0x0A)   *)
(* with level mod 16, and for every 8-bit limit, setScanLimit(d, limit)    *)
(* sends SCANLIMIT (0x0B) with limit mod 8; the data byte on the wire is   *)
(* within 0..15 and 0..7.                                                  *)
(***************************************************************************)
\* every value of a uint8_t
Bytes == 0..255

\* the data byte of the pair of device t in the log w of one framed write
DataByteOf(w, N, t) == w[2 * ((N - 1) - t) + 3].v

C22_ParametersMasked ==
    /\ (call.op = "setBrightness" /\ DevInRange) =>
          /\ wire = Frame(devsNum, call.dev, 10, call.value % 16)
          /\ DataByteOf(wire, devsNum, call.dev) \in 0..15
          /\ \A level \in Bytes :
                setBrightness(pre, call.dev, level).wire
                    = Frame(devsNum, call.dev, 10, level % 16)
    /\ (call.op = "setScanLimit" /\ DevInRange) =>
          /\ wire = Frame(devsNum, call.dev, 11, call.value % 8)
          /\ DataByteOf(wire, devsNum, call.dev) \in 0..7
          /\ \A limit \in Bytes :
                setScanLimit(pre, call.dev, limit).wire
                    = Frame(devsNum, call.dev, 11, limit % 8)

\* setBrightness(d, 24): 8 is sent and the chip latches it
C22_Witness ==
    /\ call.op = "setBrightness"
    /\ DevInRange
    /\ call.value = 24
    /\ DataByteOf(wire, devsNum, call.dev) = 8
    /\ hw[call.dev][OP_INTENSITY] = 8
    /\ hw[call.dev][OP_SCANLIMIT] = 7

(***************************************************************************)
(* C23. The constructor clamps the chain length to 1..8 for every 8-bit    *)
(* value asked for (0 gives 1, more than 8 gives 8); buffer and flags      *)
(* start all zero and all false; and no call changes the chain length      *)
(* afterwards.                                                             *)
(***************************************************************************)
Clamped(n) == IF n = 0 THEN 1 ELSE IF n > 8 THEN 8 ELSE n

C23_ChainLengthClamped ==
    /\ devsNum \in 1..8
    /\ devsNum = pre.devsNum
    /\ DOMAIN buffer = 0..(8 * devsNum - 1)
    /\ DOMAIN update = 0..(devsNum - 1)
    /\ call.op = "construct" =>
          /\ devsNum = Clamped(call.dev)
          /\ \A i \in DOMAIN buffer : buffer[i] = 0
          /\ \A d \in DOMAIN update : update[d] = FALSE
          /\ \A n \in Bytes :
                LET m == Construct(variant, n)
                IN /\ m.devsNum = Clamped(n)
                   /\ m.buffer = [i \in 0..(8 * Clamped(n) - 1) |-> 0]
                   /\ m.update = [d \in 0..(Clamped(n) - 1) |-> FALSE]

\* an object asked for 9 devices, two calls later: 8 devices, all flagged
C23_Witness ==
    /\ nOps = 2
    /\ devsNum = 8
    /\ call.op = "clearAll"
    /\ \A d \in 0..7 : update[d]
    /\ buffer = [i \in 0..63 |-> 0]

(***************************************************************************)
(* C24. No update is lost behind a flag that is not set: in every state    *)
(* reached after begin(), for every device d, if the flag of d is not set  *)
(* then the 8 digit registers of chip d, as latched from the bus, hold the *)
(* 8 buffer bytes of d; hence after show() the digit registers of all      *)
(* chips hold the buffer.                                                  *)
(***************************************************************************)
\* begin() was called: it alone writes the DECODEMODE registers
Begun == \A d \in Devices : hw[d][OP_DECODEMODE] # NoData

C24_CleanMeansSynced ==
    Begun =>
        /\ \A d \in Devices :
              ~update[d] => DigitRegs(d) = BufferOf(buffer, d)
        /\ call.op = "show" =>
              \A d \in Devices : DigitRegs(d) = BufferOf(buffer, d)

\* begin(), a setLed, show(): the chip of that device holds the lit LED
C24_Witness ==
    /\ Begun
    /\ call.op = "show"
    /\ nOps = 3
    /\ \E d \in Devices :
          /\ buffer[8 * d + 3] = 128
          /\ hw[d][4] = 128
          /\ pre.hw[d][4] = 0
          /\ ~update[d]

(***************************************************************************)
(* C25. In the hardware variant every SPI transaction a call begins is     *)
(* ended before the call returns: after begin(), show() and show(d), for   *)
(* every d, also out of range or not flagged, as many transactions were    *)
(* ended as were begun and none is left open.                              *)
(***************************************************************************)
\* how many events of kind k the log w holds
CountOf(w, k) == Len(SelectSeq(w, LAMBDA e : e.k = k))

C25_TransactionsBalanced ==
    (variant = "Hard" /\ call.op \in {"begin", "show", "showOne"}) =>
        /\ CountOf(wire, "begin") = CountOf(wire, "end")
        /\ inTransaction = pre.inTransaction

(***************************************************************************)
(* C26. In the hardware variant every byte put on the bus is sent while an *)
(* SPI transaction is held, between SPI.beginTransaction and               *)
(* SPI.endTransaction, in every call that sends: begin, show, show(d),     *)
(* clear, setBrightness, setScanLimit, setShutdown and testMode, made      *)
(* during or after begin().                                                *)
(***************************************************************************)
\* a transaction is held when event k of the log w is put on the bus, held
\* telling whether one was held when the call began
HeldAt(w, k, held) ==
    LET marks == {j \in 1..(k - 1) : w[j].k \in {"begin", "end"}}
    IN IF marks = {} THEN held
       ELSE w[CHOOSE j \in marks : \A i \in marks : i <= j].k = "begin"

C26_BytesInTransaction ==
    variant = "Hard" =>
        \A k \in 1..Len(wire) :
            wire[k].k = "byte" => HeldAt(wire, k, pre.inTransaction)

====
